---- MODULE Spec2Model ----
(***************************************************************************)
(* Token lifecycle and request pipeline of SmartViewClient                 *)
(* (src/src/equinix_smartview_mcp/server.py).                              *)
(*                                                                         *)
(* One SmartViewClient is shared by a set of logical callers (asyncio      *)
(* tasks).  A task runs without interruption between two awaits of network *)
(* I/O, so every action below is the code from one suspension point to the *)
(* next: the entry of a method up to its first HTTP call, or the arrival   *)
(* of an HTTP response up to the next HTTP call or the return.             *)
(*                                                                         *)
(* Three specifications: Spec, the methods of a constructed client called  *)
(* by concurrent tasks; SpecParams, _clean_params applied to a mapping;    *)
(* SpecGateway, tasks that obtain the client with get_client and call      *)
(* get_current_power on it.                                                *)
(***************************************************************************)
EXTENDS Integers, Sequences, FiniteSets, TLC

\* ---------------------------------------------------------------- bounds
MaxTicks == 1            \* ticks of the clock over a run
MaxIds == 2              \* token responses that carry an access token
MaxInvocations == 3      \* method invocations started over a run
MaxParams == 2           \* entries of a query-parameter mapping

\* ------------------------------------------------------ program constants
MARGIN == 300            \* timedelta(seconds=timeout - 300)
DEFAULT_TIMEOUT == 3600  \* data.get("token_timeout", 3600)

\* Optional[T]: None is the empty tuple, a present value x is <<x>>.
None == <<>>
Some(x) == <<x>>

\* The logical callers (asyncio tasks) that share the one client.
Callers == {1, 2}

\* Seconds the clock advances in one Tick.
TickStep == MARGIN \div 3

\* The three kinds of URL the client posts to.
TOKEN_ENDPOINT == "oauth2/v1/token"
REFRESH_ENDPOINT == "oauth2/v1/refreshaccesstoken"
DATA_ENDPOINT == "data"

\* token_timeout values the backend may supply: at the safety margin, one
\* tick above it, and the usual hour; None is a response that carries no
\* token_timeout.
Timeouts == {Some(MARGIN), Some(MARGIN + TickStep), Some(DEFAULT_TIMEOUT), None}

\* What a token endpoint may answer.
\*   http_error       transport failure or non-2xx (raise_for_status)
\*   bad_json         2xx whose body is not JSON
\*   no_access_token  2xx JSON without the key access_token
\*   bad_timeout      2xx JSON whose token_timeout is not an integer
\*   ok               2xx JSON, well formed
\* has_refresh: the body carries refresh_token.  The tokens a body carries
\* are non-empty strings, modelled by the number of the response (Minted).
TokenResponseShapes ==
    [kind : {"http_error", "bad_json", "no_access_token"},
     has_refresh : {FALSE}, timeout : {None}]
    \cup [kind : {"bad_timeout"}, has_refresh : BOOLEAN, timeout : {None}]
    \cup [kind : {"ok"}, has_refresh : BOOLEAN, timeout : Timeouts]

\* The answers the token endpoints give in the runs of the gateway: every
\* kind of answer; a good one either carries a refresh token and is at the
\* safety margin, or carries neither refresh token nor token_timeout.
GatewayShapes ==
    {s \in TokenResponseShapes :
        /\ s.kind = "bad_timeout" => ~s.has_refresh
        /\ s.kind = "ok" =>
              \/ s.has_refresh /\ s.timeout = Some(MARGIN)
              \/ ~s.has_refresh /\ s.timeout = None}

CarriesToken(r) == r.kind \in {"ok", "bad_timeout"}

\* Python values a query parameter may have.  Each type has a record of
\* its own, so that values of different types are unequal, as in Python.
PyNone == [none |-> TRUE]
PyStr(s) == [str |-> s]
PyInt(i) == [int |-> i]
PyBool(b) == [bool |-> b]
PyList(l) == [list |-> l]

\* isinstance(value, list)
IsList(v) == "list" \in DOMAIN v

\* The values and keys the mappings below are built from.
ParamValues ==
    {PyNone, PyStr(""), PyStr("SV5"), PyInt(0), PyBool(FALSE), PyList(<<>>),
     PyList(<<PyStr("a"), PyStr("b")>>), PyList(<<PyInt(1)>>)}

ParamKeys == {"accountNo", "ibx", "levelValue"}

\* A dict is the sequence of its entries in insertion order, with distinct
\* keys.
Entries == [key : ParamKeys, value : ParamValues]

Mappings ==
    UNION {{m \in [1..n -> Entries] :
              \A i, j \in 1..n : i # j => m[i].key # m[j].key} :
           n \in 0..MaxParams}

\* The path of get_current_power and the arguments it is called with:
\* account_no, ibx and level_type are strings, level_value may be None.
POWER_CURRENT == "/dcim/v1/power/current"

PowerArgs ==
    [account_no : {PyStr("123")}, ibx : {PyStr("SV5")},
     level_type : {PyStr("cage")},
     level_value : {PyNone, PyStr(""), PyStr("c1")}]
    \cup {[account_no |-> PyStr(""), ibx |-> PyStr("SV5"),
            level_type |-> PyStr(""), level_value |-> PyStr("c1")]}

VARIABLES
    access_token,     \* self.access_token : Optional token id
    refresh_token,    \* self.refresh_token : Optional token id
    token_expiry,     \* self.token_expiry : Optional instant
    now,              \* datetime.now()
    nextId,           \* next token id the backend mints
    started,          \* invocations started so far
    pc,               \* per caller: where its task is suspended
    called,           \* per caller: client methods entered by the running invocation
    log,              \* per caller: HTTP calls issued by the running invocation
    sent,             \* per caller: the data call in flight (Optional)
    outcome,          \* the invocation that the last step ended: its caller and how
                      \* it ended (None when the last step ended none)
    params,           \* the argument of a call of _clean_params
    cleaned,          \* what that call returned (Optional)
    req,              \* per caller: the arguments of its running request (Optional)
    http,             \* per caller: the data request it has issued (Optional)
    client_instance,  \* the module global client_instance (Optional instance)
    created           \* SmartViewClient instances constructed so far

client == <<access_token, refresh_token, token_expiry>>
vars == <<access_token, refresh_token, token_expiry, now, nextId, started,
          pc, called, log, sent, outcome, params, cleaned, req, http,
          client_instance, created>>

normalizer == <<params, cleaned>>

singleton == <<client_instance, created>>

TokenState == [access_token |-> access_token, refresh_token |-> refresh_token,
               token_expiry |-> token_expiry]

\* ---------------------------------------------------------- pure code
\* Mutant of Expiry: the safety margin is not subtracted.
ExpiryNoMargin(r, t) ==
    t + (IF r.timeout = None THEN DEFAULT_TIMEOUT ELSE r.timeout[1])

\* timedelta(seconds=timeout - 300) added to datetime.now()
Expiry(r, t) ==
    t + (IF r.timeout = None THEN DEFAULT_TIMEOUT ELSE r.timeout[1]) - MARGIN

\* str(v) for the values above
Str(v) ==
    CASE "str" \in DOMAIN v -> v.str
      [] "int" \in DOMAIN v -> ToString(v.int)
      [] "bool" \in DOMAIN v -> (IF v.bool THEN "True" ELSE "False")
      [] "none" \in DOMAIN v -> "None"

\* ",".join(str(v) for v in value)
RECURSIVE Join(_)
Join(l) ==
    IF l = <<>> THEN ""
    ELSE IF Len(l) = 1 THEN Str(l[1])
    ELSE Str(l[1]) \o "," \o Join(Tail(l))

\* Mutant of clean_params: entries are kept by truthiness, so 0 and False
\* are dropped too.
RECURSIVE clean_params_truthy(_)
clean_params_truthy(m) ==
    IF m = <<>> THEN <<>>
    ELSE LET key == m[Len(m)].key
             value == m[Len(m)].value
             before == clean_params_truthy(SubSeq(m, 1, Len(m) - 1))
         IN IF value \notin {PyNone, PyStr(""), PyInt(0), PyBool(FALSE),
                             PyList(<<>>)}
            THEN Append(before,
                        [key |-> key,
                         value |-> IF IsList(value) THEN PyStr(Join(value.list))
                                   ELSE value])
            ELSE before

\* _clean_params, lines 111-120: the loop over params.items(), which adds
\* to a new dict and leaves params alone.
RECURSIVE clean_params(_)
clean_params(m) ==
    IF m = <<>> THEN <<>>
    ELSE LET key == m[Len(m)].key
             value == m[Len(m)].value
             before == clean_params(SubSeq(m, 1, Len(m) - 1))
         IN IF value # PyNone /\ value # PyStr("") /\ value # PyList(<<>>)
            THEN Append(before,
                        [key |-> key,
                         value |-> IF IsList(value) THEN PyStr(Join(value.list))
                                   ELSE value])
            ELSE before

\* get_current_power, line 197: the arguments it passes to request.
PowerRequest(a) ==
    [endpoint |-> POWER_CURRENT, method |-> "GET",
     query_params |->
        Some(<<[key |-> "accountNo", value |-> a.account_no],
               [key |-> "ibx", value |-> a.ibx],
               [key |-> "levelType", value |-> a.level_type],
               [key |-> "levelValue", value |-> a.level_value]>>)]

\* request called with its defaults: method "GET", no query_params.
PlainRequest ==
    [endpoint |-> DATA_ENDPOINT, method |-> "GET", query_params |-> None]

\* Mutant of HttpRequest: the query is sent as it was given.
HttpRequestUnfiltered(r) ==
    [method |-> r.method, path |-> r.endpoint,
     params |-> IF r.query_params = None THEN <<>> ELSE r.query_params[1]]

\* request, lines 129-135: the HTTP request made for arguments r; an absent
\* or empty query_params gives no query.
HttpRequest(r) ==
    [method |-> r.method, path |-> r.endpoint,
     params |-> IF r.query_params = None \/ r.query_params[1] = <<>>
                THEN <<>>
                ELSE clean_params(r.query_params[1])]

\* Mutant of AuthOutcome: a failed authentication drops the token held.
AuthOutcomeClearing(st, r, t) ==
    CASE r.kind = "http_error" ->
           [state |-> [access_token |-> None, refresh_token |-> None,
                       token_expiry |-> None],
            raised |-> "OAuth authentication failed"]
      [] r.kind = "bad_json" ->
           [state |-> st, raised |-> "JSONDecodeError"]
      [] r.kind = "no_access_token" ->
           [state |-> st, raised |-> "KeyError"]
      [] r.kind = "bad_timeout" ->
           [state |-> [access_token |-> Some(r.id),
                       refresh_token |-> IF r.has_refresh THEN Some(r.id) ELSE None,
                       token_expiry |-> st.token_expiry],
            raised |-> "ValueError"]
      [] r.kind = "ok" ->
           [state |-> [access_token |-> Some(r.id),
                       refresh_token |-> IF r.has_refresh THEN Some(r.id) ELSE None,
                       token_expiry |-> Some(Expiry(r, t))],
            raised |-> "none"]

\* authenticate, lines 70-78: the effect of a response on the token fields
\* and the exception raised ("none" when it returns normally).
AuthOutcome(st, r, t) ==
    CASE r.kind = "http_error" ->
           [state |-> st, raised |-> "OAuth authentication failed"]
      [] r.kind = "bad_json" ->
           [state |-> st, raised |-> "JSONDecodeError"]
      [] r.kind = "no_access_token" ->
           [state |-> st, raised |-> "KeyError"]
      [] r.kind = "bad_timeout" ->
           [state |-> [access_token |-> Some(r.id),
                       refresh_token |-> IF r.has_refresh THEN Some(r.id) ELSE None,
                       token_expiry |-> st.token_expiry],
            raised |-> "ValueError"]
      [] r.kind = "ok" ->
           [state |-> [access_token |-> Some(r.id),
                       refresh_token |-> IF r.has_refresh THEN Some(r.id) ELSE None,
                       token_expiry |-> Some(Expiry(r, t))],
            raised |-> "none"]

\* Mutant of RefreshOutcome: a refresh response without refresh_token clears
\* the stored refresh token, as authenticate does.
RefreshOutcomeWholesale(st, r, t) ==
    IF r.kind = "http_error" THEN [state |-> st, raised |-> "HTTPError"]
    ELSE AuthOutcome(st, r, t)

\* refresh_access_token, lines 95-101.  "HTTPError" is the one exception
\* the except clause catches; it leads to the fallback authenticate.
RefreshOutcome(st, r, t) ==
    CASE r.kind = "http_error" ->
           [state |-> st, raised |-> "HTTPError"]
      [] r.kind = "bad_json" ->
           [state |-> st, raised |-> "JSONDecodeError"]
      [] r.kind = "no_access_token" ->
           [state |-> st, raised |-> "KeyError"]
      [] r.kind = "bad_timeout" ->
           [state |-> [access_token |-> Some(r.id),
                       refresh_token |-> IF r.has_refresh THEN Some(r.id)
                                         ELSE st.refresh_token,
                       token_expiry |-> st.token_expiry],
            raised |-> "ValueError"]
      [] r.kind = "ok" ->
           [state |-> [access_token |-> Some(r.id),
                       refresh_token |-> IF r.has_refresh THEN Some(r.id)
                                         ELSE st.refresh_token,
                       token_expiry |-> Some(Expiry(r, t))],
            raised |-> "none"]

\* Mutant of EnsureBranch: the expiry test is strict (now > token_expiry).
EnsureBranchStrict(at, ex, t) ==
    IF at = None \/ ex = None THEN "authenticate"
    ELSE IF t > ex[1] THEN "refresh_access_token"
    ELSE "noop"

\* ensure_valid_token, lines 106-109: which branch is taken.
EnsureBranch(at, ex, t) ==
    IF at = None \/ ex = None THEN "authenticate"
    ELSE IF t >= ex[1] THEN "refresh_access_token"
    ELSE "noop"

\* Entry of a method up to its first suspension: the methods it enters and
\* the endpoint it posts to ("none": it returns without any HTTP call).
AuthEntry == [calls |-> <<"authenticate">>, post |-> TOKEN_ENDPOINT]

\* Mutant of RefreshEntry: the test for a stored refresh token is missing.
RefreshEntryAlwaysPosts(rt) ==
    [calls |-> <<"refresh_access_token">>, post |-> REFRESH_ENDPOINT]

\* refresh_access_token, lines 82-94
RefreshEntry(rt) ==
    IF rt = None
    THEN [calls |-> <<"refresh_access_token">> \o AuthEntry.calls,
          post |-> AuthEntry.post]
    ELSE [calls |-> <<"refresh_access_token">>, post |-> REFRESH_ENDPOINT]

\* ensure_valid_token, lines 104-109
EnsureEntry(at, rt, ex, t) ==
    LET b == EnsureBranch(at, ex, t)
        inner == CASE b = "authenticate" -> AuthEntry
                   [] b = "refresh_access_token" -> RefreshEntry(rt)
                   [] OTHER -> [calls |-> <<>>, post |-> "none"]
    IN [calls |-> <<"ensure_valid_token">> \o inner.calls, post |-> inner.post]

\* request, lines 127-135: with a token that needs no renewal the data call
\* is issued at once.
RequestEntry(at, rt, ex, t) ==
    LET e == EnsureEntry(at, rt, ex, t)
    IN [calls |-> <<"request">> \o e.calls,
        post |-> IF e.post = "none" THEN DATA_ENDPOINT ELSE e.post]

WaitFor(endpoint) ==
    CASE endpoint = TOKEN_ENDPOINT -> "auth_wait"
      [] endpoint = REFRESH_ENDPOINT -> "refresh_wait"
      [] endpoint = DATA_ENDPOINT -> "data_wait"
      [] OTHER -> "done"

\* Mutant of Snapshot: the Authorization header is built from the token held
\* before ensure_valid_token ran.
SnapshotStale(st, t) ==
    Some([bearer |-> access_token,
          remaining |-> IF token_expiry = None THEN None
                        ELSE Some(token_expiry[1] - t)])

\* Lines 128-135, the data call as it is issued: the token in its
\* Authorization header and the time that token has left at that instant
\* (token_expiry - datetime.now(); None without a recorded expiry).
Snapshot(st, t) ==
    Some([bearer |-> st.access_token,
          remaining |-> IF st.token_expiry = None THEN None
                        ELSE Some(st.token_expiry[1] - t)])

\* ------------------------------------------------------------------ Init
\* The client after __init__ (lines 42-49), no task running.
Constructed ==
    /\ access_token = None
    /\ refresh_token = None
    /\ token_expiry = None
    /\ now = 0
    /\ nextId = 1
    /\ started = 0
    /\ pc = [c \in Callers |-> "idle"]
    /\ called = [c \in Callers |-> <<>>]
    /\ log = [c \in Callers |-> <<>>]
    /\ sent = [c \in Callers |-> None]
    /\ outcome = None
    /\ req = [c \in Callers |-> None]
    /\ http = [c \in Callers |-> None]

\* The callers share one client that has been constructed.
Init ==
    /\ Constructed
    /\ params = <<>>
    /\ cleaned = None
    /\ client_instance = Some(1)
    /\ created = 1

\* The module as loaded (line 215): no client yet.
InitGateway ==
    /\ Constructed
    /\ params = <<>>
    /\ cleaned = None
    /\ client_instance = None
    /\ created = 0

\* The start of a run that calls _clean_params on one mapping.
InitParams ==
    /\ Constructed
    /\ params \in Mappings
    /\ cleaned = None
    /\ client_instance = Some(1)
    /\ created = 1

\* --------------------------------------------------------------- actions
\* The invocation of caller c ends with outcome res ("ok" or the exception
\* raised) and detail (what the return value or the exception carries, None
\* when nothing is modelled); its task is gone and the caller may invoke
\* again.
FinishWith(c, res, detail) ==
    /\ pc' = [pc EXCEPT ![c] = "idle"]
    /\ outcome' = Some([caller |-> c, ended |-> res, detail |-> detail])
    /\ called' = [called EXCEPT ![c] = <<>>]
    /\ log' = [log EXCEPT ![c] = <<>>]
    /\ sent' = [sent EXCEPT ![c] = None]
    /\ req' = [req EXCEPT ![c] = None]
    /\ http' = [http EXCEPT ![c] = None]

Finish(c, res) == FinishWith(c, res, None)

\* The invocation of caller c posts to endpoint and suspends; entered are
\* the methods it entered on the way.  st and t are the token fields and the
\* clock at that instant, r the arguments of the request the invocation runs
\* (None when it runs none).
PostWith(c, endpoint, entered, st, t, r) ==
    /\ pc' = [pc EXCEPT ![c] = WaitFor(endpoint)]
    /\ outcome' = None
    /\ called' = [called EXCEPT ![c] = @ \o entered]
    /\ log' = [log EXCEPT ![c] = Append(@, endpoint)]
    /\ sent' = [sent EXCEPT ![c] = IF endpoint = DATA_ENDPOINT
                                   THEN Snapshot(st, t) ELSE None]
    /\ req' = [req EXCEPT ![c] = r]
    /\ http' = [http EXCEPT ![c] = IF endpoint = DATA_ENDPOINT /\ r # None
                                   THEN Some(HttpRequest(r[1])) ELSE None]

Post(c, endpoint, entered, st, t) == PostWith(c, endpoint, entered, st, t, req[c])

\* An idle caller enters a method of the client; e is what the method does
\* up to its first await, r the arguments of the request it runs (None when
\* it runs none).
InvokeWith(c, e, r) ==
    /\ pc[c] = "idle"
    /\ client_instance # None
    /\ started < MaxInvocations
    /\ started' = started + 1
    /\ IF e.post = "none"
       THEN Finish(c, "ok")
       ELSE PostWith(c, e.post, e.calls, TokenState, now, r)
    /\ UNCHANGED <<client, now, nextId, normalizer, singleton>>

Invoke(c, e) == InvokeWith(c, e, None)

authenticate(c) == Invoke(c, AuthEntry)

refresh_access_token(c) == Invoke(c, RefreshEntry(refresh_token))

ensure_valid_token(c) ==
    Invoke(c, EnsureEntry(access_token, refresh_token, token_expiry, now))

request(c) ==
    InvokeWith(c, RequestEntry(access_token, refresh_token, token_expiry, now),
               Some(PlainRequest))

\* get_current_power, lines 196-197: request with the path and the four
\* query parameters.
get_current_power(c, a) ==
    InvokeWith(c, RequestEntry(access_token, refresh_token, token_expiry, now),
               Some(PowerRequest(a)))

\* Mutant of get_client: a client is constructed on every call.
get_client_fresh(c) ==
    /\ pc[c] = "idle"
    /\ started < MaxInvocations
    /\ started' = started + 1
    /\ client_instance' = Some(created + 1)
    /\ created' = created + 1
    /\ PostWith(c, AuthEntry.post, <<"get_client">> \o AuthEntry.calls,
                TokenState, now, None)
    /\ UNCHANGED <<client, now, nextId, normalizer>>

\* get_client, lines 218-223, up to its await or its return: the test of
\* the global and its assignment are one step.
get_client(c) ==
    /\ pc[c] = "idle"
    /\ started < MaxInvocations
    /\ started' = started + 1
    /\ IF client_instance = None
       THEN /\ client_instance' = Some(created + 1)
            /\ created' = created + 1
            /\ PostWith(c, AuthEntry.post, <<"get_client">> \o AuthEntry.calls,
                        TokenState, now, None)
       ELSE /\ UNCHANGED singleton
            /\ FinishWith(c, "ok", Some([instance |-> client_instance[1]]))
    /\ UNCHANGED <<client, now, nextId, normalizer>>

\* The token fields take the values of out.state and the caller goes on:
\* an exception ends the invocation, a normal return of the token exchange
\* ends it too unless the caller is inside request, which then issues the
\* data call (lines 128-135) without suspending in between.
Settle(c, out) ==
    /\ access_token' = out.state.access_token
    /\ refresh_token' = out.state.refresh_token
    /\ token_expiry' = out.state.token_expiry
    /\ IF out.raised # "none" THEN Finish(c, out.raised)
       ELSE IF Head(called[c]) = "request"
            THEN Post(c, DATA_ENDPOINT, <<>>, out.state, now)
       ELSE IF Head(called[c]) = "get_client"
            THEN FinishWith(c, "ok", Some([instance |-> client_instance[1]]))
            ELSE Finish(c, "ok")

\* The response a token endpoint sends for shape s: the token it carries is
\* the next one the backend mints.
Minted(s) == [kind |-> s.kind, has_refresh |-> s.has_refresh,
              timeout |-> s.timeout, id |-> nextId]

\* The token endpoint answers the post of authenticate (lines 70-78).
AuthenticateResponse(c, s) ==
    /\ pc[c] = "auth_wait"
    /\ CarriesToken(s) => nextId <= MaxIds
    /\ nextId' = IF CarriesToken(s) THEN nextId + 1 ELSE nextId
    /\ Settle(c, AuthOutcome(TokenState, Minted(s), now))
    /\ UNCHANGED <<now, started, normalizer, singleton>>

\* The refresh endpoint answers the post of refresh_access_token
\* (lines 95-102); an httpx.HTTPError is caught and authenticate is called.
RefreshResponse(c, s) ==
    /\ pc[c] = "refresh_wait"
    /\ CarriesToken(s) => nextId <= MaxIds
    /\ nextId' = IF CarriesToken(s) THEN nextId + 1 ELSE nextId
    /\ LET out == RefreshOutcome(TokenState, Minted(s), now)
       IN IF out.raised = "HTTPError"
          THEN /\ Post(c, AuthEntry.post, AuthEntry.calls, TokenState, now)
               /\ UNCHANGED client
          ELSE Settle(c, out)
    /\ UNCHANGED <<now, started, normalizer, singleton>>

\* What the data endpoint may answer: a 2xx response, a 2xx response that
\* declares JSON and whose body does not parse (response.json() raises), a
\* non-2xx response (httpx.HTTPStatusError) or a transport failure (another
\* httpx.HTTPError).
DataResponses ==
    [kind : {"2xx", "2xx_bad_json"}, status : {200}, text : {"{}"}]
    \cup {[kind |-> "non2xx", status |-> 404, text |-> "not found"],
          [kind |-> "non2xx", status |-> 401, text |-> ""]}
    \cup [kind : {"transport"}, status : {0}, text : {""}]

\* Mutant of DataOutcome: the clause for httpx.HTTPError comes first and
\* takes the HTTPStatusError too.
DataOutcomeGeneric(d) ==
    CASE d.kind = "2xx" -> [ended |-> "ok", detail |-> None]
      [] d.kind = "2xx_bad_json" -> [ended |-> "JSONDecodeError", detail |-> None]
      [] OTHER -> [ended |-> "HTTP error", detail |-> None]

\* request, lines 136-141: what the answer d of the data endpoint makes of
\* the invocation.  The exception of line 139 carries the status code and
\* the text of the response.
DataOutcome(d) ==
    CASE d.kind = "2xx" -> [ended |-> "ok", detail |-> None]
      [] d.kind = "2xx_bad_json" -> [ended |-> "JSONDecodeError", detail |-> None]
      [] d.kind = "non2xx" ->
           [ended |-> "API Error",
            detail |-> Some([status |-> d.status, body |-> d.text])]
      [] d.kind = "transport" -> [ended |-> "HTTP error", detail |-> None]

\* Mutant of DataResponse: a non-2xx answer makes request send the data
\* call again.
DataResponseRetry(c, d) ==
    /\ pc[c] = "data_wait"
    /\ IF d.kind = "non2xx"
       THEN Post(c, DATA_ENDPOINT, <<>>, TokenState, now)
       ELSE FinishWith(c, DataOutcome(d).ended, DataOutcome(d).detail)
    /\ UNCHANGED <<client, now, nextId, started, normalizer, singleton>>

\* The data endpoint answers (lines 136-141).
DataResponse(c, d) ==
    /\ pc[c] = "data_wait"
    /\ FinishWith(c, DataOutcome(d).ended, DataOutcome(d).detail)
    /\ UNCHANGED <<client, now, nextId, started, normalizer, singleton>>

\* Time passes.
Tick ==
    /\ now + TickStep <= MaxTicks * TickStep
    /\ now' = now + TickStep
    /\ outcome' = None
    /\ UNCHANGED <<client, nextId, started, pc, called, log, sent,
                   normalizer, req, http, singleton>>

Next ==
    \/ \E c \in Callers : authenticate(c)
    \/ \E c \in Callers : refresh_access_token(c)
    \/ \E c \in Callers : ensure_valid_token(c)
    \/ \E c \in Callers : request(c)
    \/ \E c \in Callers, s \in TokenResponseShapes : AuthenticateResponse(c, s)
    \/ \E c \in Callers, s \in TokenResponseShapes : RefreshResponse(c, s)
    \/ \E c \in Callers, d \in DataResponses : DataResponse(c, d)
    \/ Tick

Spec == Init /\ [][Next]_vars

\* A call of _clean_params (lines 111-120) returns.
CallCleanParams ==
    /\ cleaned = None
    /\ cleaned' = Some(clean_params(params))
    /\ UNCHANGED <<params, client, now, nextId, started, pc, called, log, sent,
                   outcome, req, http, singleton>>

NextParams == CallCleanParams

\* The tasks of the server obtain the client with get_client and query the
\* power endpoint with it.  The clock stands still over these runs: a token
\* issued at the safety margin is expired as soon as it is stored, so every
\* branch of ensure_valid_token is taken.
NextGateway ==
    \/ \E c \in Callers : get_client(c)
    \/ \E c \in Callers, a \in PowerArgs : get_current_power(c, a)
    \/ \E c \in Callers, s \in GatewayShapes : AuthenticateResponse(c, s)
    \/ \E c \in Callers, s \in GatewayShapes : RefreshResponse(c, s)
    \/ \E c \in Callers, d \in DataResponses : DataResponse(c, d)

SpecGateway == InitGateway /\ [][NextGateway]_vars

SpecParams == InitParams /\ [][NextParams]_vars

\* ------------------------------------------------------- derived notions
Range(q) == {q[i] : i \in 1..Len(q)}

\* The Valid state of the token fields at instant t: a token is held and t
\* is strictly before its recorded expiry.
Valid(at, ex, t) == at # None /\ ex # None /\ t < ex[1]

\* Calls to the two token endpoints among the HTTP calls q.
TokenCalls(q) ==
    Cardinality({i \in 1..Len(q) : q[i] \in {TOKEN_ENDPOINT, REFRESH_ENDPOINT}})

Ended(c, res) == Some([caller |-> c, ended |-> res, detail |-> None])

\* The invocation of c finishes in this step, returning normally.
ReturnsNormally(c) == pc[c] # "idle" /\ pc'[c] = "idle" /\ outcome' = Ended(c, "ok")

\* A token endpoint answers caller c in this step.
Answered(c) == pc[c] \in {"auth_wait", "refresh_wait"} /\ pc'[c] # pc[c]

OkShapes == {s \in TokenResponseShapes : s.kind = "ok"}

\* ---------------------------------------------------------------- claims

\* C1: in every reachable state, whatever the token endpoints answered, a
\* present access_token comes with a present token_expiry (the token fields
\* are never left partially updated).
C1_TokenFieldsTogether == access_token # None => token_expiry # None

\* C2: whenever request issues its data call, the bearer token of the call
\* is the access token the client holds at that instant, and that token is
\* Valid at that instant (present, now strictly before token_expiry).
C2_DataCallCarriesValidToken ==
    [][\A c \in Callers :
         (sent[c] = None /\ sent'[c] # None) =>
            /\ sent'[c][1].bearer = access_token'
            /\ Valid(access_token', token_expiry', now')]_vars

\* C3: ensure_valid_token (called directly or by request) dispatches on the
\* token fields: without access token or expiry it calls authenticate and
\* posts to the token endpoint only; else with now >= token_expiry it calls
\* refresh_access_token; else it makes no token-endpoint call and leaves the
\* token fields unchanged.
C3_EnsureDispatch ==
    /\ [][\A c \in Callers :
            (ensure_valid_token(c) \/ request(c)) =>
               LET trace == IF called'[c] # <<>> /\ Head(called'[c]) = "request"
                            THEN Tail(called'[c]) ELSE called'[c]
               IN IF access_token = None \/ token_expiry = None
                  THEN /\ trace = <<"ensure_valid_token", "authenticate">>
                       /\ log'[c] = <<TOKEN_ENDPOINT>>
                  ELSE IF now >= token_expiry[1]
                  THEN /\ Len(trace) >= 2
                       /\ SubSeq(trace, 1, 2) =
                             <<"ensure_valid_token", "refresh_access_token">>
                       /\ TokenCalls(log'[c]) = 1
                  ELSE /\ TokenCalls(log'[c]) = 0
                       /\ "authenticate" \notin Range(called'[c])
                       /\ "refresh_access_token" \notin Range(called'[c])
                       /\ UNCHANGED client]_vars
    /\ [](\A c \in Callers :
            (Len(called[c]) >= 2
               /\ called[c][Len(called[c]) - 1] = "ensure_valid_token")
              => (called[c][Len(called[c])] = "authenticate"
                    => REFRESH_ENDPOINT \notin Range(log[c])))

C3_Witness ==
    \E c \in Callers :
        /\ called[c] = <<"ensure_valid_token", "refresh_access_token">>
        /\ pc[c] = "refresh_wait"
        /\ access_token # None /\ token_expiry # None /\ now >= token_expiry[1]

\* C4: once authenticate or ensure_valid_token has returned normally the
\* client is Valid, so an ensure_valid_token that follows with no time
\* elapsed makes no token-endpoint call -- for every token_timeout.
C4_EnsureIdempotent ==
    [][\A c \in Callers :
         \/ (ReturnsNormally(c)
               /\ Head(called[c]) \in {"authenticate", "ensure_valid_token"})
         \/ (ensure_valid_token(c) /\ pc'[c] = "idle")
         => /\ Valid(access_token', token_expiry', now')
            /\ EnsureEntry(access_token', refresh_token', token_expiry', now').post
                 = "none"]_vars

\* C5: when the refresh exchange of refresh_access_token fails with an HTTP
\* error, exactly one call to the authenticate endpoint follows, the refresh
\* failure is not surfaced, and if that authenticate succeeds the token
\* fields are those of its response and the client is Valid.
C5_RefreshFallbackEndsValid ==
    /\ [][\A c \in Callers :
          Answered(c) => \A s \in TokenResponseShapes :
            /\ (s.kind = "http_error" /\ RefreshResponse(c, s)) =>
                  /\ log'[c] = Append(log[c], TOKEN_ENDPOINT)
                  /\ pc'[c] = "auth_wait"
                  /\ UNCHANGED client
                  /\ outcome' = None
            /\ (s.kind = "ok" /\ REFRESH_ENDPOINT \in Range(log[c])
                  /\ AuthenticateResponse(c, s)) =>
                  /\ access_token' = Some(nextId)
                  /\ refresh_token' = (IF s.has_refresh THEN Some(nextId) ELSE None)
                  /\ token_expiry' # None
                  /\ Valid(access_token', token_expiry', now')]_vars
    /\ [](\A c \in Callers :
            Cardinality({i \in 1..Len(log[c]) : log[c][i] = TOKEN_ENDPOINT}) <= 1)

\* C6: whatever way the refresh exchange fails (transport failure, non-2xx,
\* a 2xx body that is no JSON or lacks access_token), refresh_access_token
\* falls back to authenticate and does not raise the refresh error itself.
C6_AnyRefreshFailureFallsBack ==
    [][\A c \in Callers :
       Answered(c) => \A s \in TokenResponseShapes \ OkShapes :
         RefreshResponse(c, s) =>
            /\ pc'[c] = "auth_wait"
            /\ log'[c] = Append(log[c], TOKEN_ENDPOINT)
            /\ outcome' = None]_vars

\* Both callers are inside an ensure_valid_token that found the token
\* expired and called refresh_access_token.
Racing ==
    \A c \in Callers :
        /\ "ensure_valid_token" \in Range(called[c])
        /\ "refresh_access_token" \in Range(called[c])

RECURSIVE SumTokenCalls(_)
SumTokenCalls(S) ==
    IF S = {} THEN 0
    ELSE LET c == CHOOSE x \in S : TRUE
         IN TokenCalls(log[c]) + SumTokenCalls(S \ {c})

Count(q, e) == Cardinality({i \in 1..Len(q) : q[i] = e})

C8_RefreshWithoutTokenIsAuthenticate ==
    /\ [][\A c \in Callers :
            (refresh_access_token(c) /\ refresh_token = None) =>
               /\ called'[c] = <<"refresh_access_token", "authenticate">>
               /\ log'[c] = <<TOKEN_ENDPOINT>>
               /\ pc'[c] = "auth_wait"
               /\ UNCHANGED client]_vars
    /\ [][\A c \in Callers :
          (Answered(c)
             /\ called[c] = <<"refresh_access_token", "authenticate">>
             /\ log[c] = <<TOKEN_ENDPOINT>>) => \A s \in TokenResponseShapes :
            AuthenticateResponse(c, s) =>
               LET out == AuthOutcome(TokenState, Minted(s), now)
               IN /\ access_token' = out.state.access_token
                  /\ refresh_token' = out.state.refresh_token
                  /\ token_expiry' = out.state.token_expiry
                  /\ pc'[c] = "idle"
                  /\ outcome' = Ended(c, IF out.raised = "none" THEN "ok"
                                         ELSE out.raised)]_vars

C8_Witness ==
    \E c \in Callers :
        /\ called[c] = <<"refresh_access_token", "authenticate">>
        /\ log[c] = <<TOKEN_ENDPOINT>>
        /\ pc[c] = "auth_wait"
        /\ refresh_token = None
        /\ access_token # None

\* C9 as stated: a successful authenticate or refresh replaces the three
\* token fields by the values of its response, the refresh token becoming
\* absent when the response carries none.
C9_ReplacedWholesale ==
    [][\A c \in Callers :
       Answered(c) => \A s \in OkShapes :
         (AuthenticateResponse(c, s) \/ RefreshResponse(c, s)) =>
            /\ access_token' = Some(nextId)
            /\ refresh_token' = (IF s.has_refresh THEN Some(nextId) ELSE None)
            /\ token_expiry' = Some(Expiry(Minted(s), now))]_vars

\* C9 as amended: a successful authenticate or refresh sets access token and
\* expiry from its response; the refresh token is the one of the response
\* when it carries one; when it carries none, authenticate makes it absent
\* and refresh keeps the one held before.
C9_ReplacedFromResponse ==
    [][\A c \in Callers :
       Answered(c) => \A s \in OkShapes :
         (AuthenticateResponse(c, s) \/ RefreshResponse(c, s)) =>
            /\ access_token' = Some(nextId)
            /\ token_expiry' =
                 Some(now + (IF s.timeout = None THEN DEFAULT_TIMEOUT
                             ELSE s.timeout[1]) - MARGIN)
            /\ refresh_token' =
                 (IF s.has_refresh THEN Some(nextId)
                  ELSE IF pc[c] = "refresh_wait" THEN refresh_token
                  ELSE None)]_vars

\* A refresh has just succeeded inside request with a response that carried
\* no refresh token: the data call carries the new access token and the
\* refresh token held is an older one.
C9_Witness ==
    \E c \in Callers :
        /\ log[c] = <<REFRESH_ENDPOINT, DATA_ENDPOINT>>
        /\ sent[c] # None
        /\ sent[c][1].bearer = access_token
        /\ refresh_token # None
        /\ refresh_token[1] < access_token[1]
        /\ token_expiry # None

Rank(e) ==
    CASE e = REFRESH_ENDPOINT -> 1
      [] e = TOKEN_ENDPOINT -> 2
      [] e = DATA_ENDPOINT -> 3

\* C10: one invocation of request issues at most one refresh call, at most
\* one authenticate call and at most one data call, in that order; every
\* answer it receives makes it issue the next call or end, and the answer to
\* the data call, whatever it is, ends it.
C10_SingleFallbackHop ==
    /\ [](\A c \in Callers :
            (called[c] # <<>> /\ Head(called[c]) = "request") =>
               /\ Len(log[c]) <= 3
               /\ \A i, j \in 1..Len(log[c]) :
                     i < j => Rank(log[c][i]) < Rank(log[c][j]))
    /\ [][\A c \in Callers :
            (called[c] # <<>> /\ Head(called[c]) = "request"
               /\ <<pc[c], log[c]>> # <<pc'[c], log'[c]>>) =>
               \/ pc'[c] = "idle" /\ outcome' # None /\ outcome'[1].caller = c
               \/ /\ Len(log'[c]) = Len(log[c]) + 1
                  /\ SubSeq(log'[c], 1, Len(log[c])) = log[c]]_vars
    /\ [][\A c \in Callers, k \in DataResponses :
            DataResponse(c, k) => pc'[c] = "idle" /\ log'[c] = <<>>]_vars

C10_Witness ==
    \E c \in Callers :
        /\ log[c] = <<REFRESH_ENDPOINT, TOKEN_ENDPOINT, DATA_ENDPOINT>>
        /\ called[c] # <<>> /\ Head(called[c]) = "request"
        /\ pc[c] = "data_wait"

\* C11: a non-2xx answer to the data call ends request with an API error
\* that carries the status code and the raw text of that answer, after the
\* one data call, with no further HTTP call and the token fields unchanged.
C11_ApiErrorCarriesStatusAndBody ==
    [][\A c \in Callers :
         (pc[c] = "data_wait" /\ pc'[c] # pc[c]) =>
            \A d \in {x \in DataResponses : x.kind = "non2xx"} :
               DataResponse(c, d) =>
                  /\ outcome' = Some([caller |-> c, ended |-> "API Error",
                                      detail |-> Some([status |-> d.status,
                                                       body |-> d.text])])
                  /\ Count(log[c], DATA_ENDPOINT) = 1
                  /\ pc'[c] = "idle" /\ log'[c] = <<>>
                  /\ UNCHANGED client]_vars

C11_Witness ==
    /\ outcome # None
    /\ outcome[1].ended = "API Error"
    /\ outcome[1].detail = Some([status |-> 404, body |-> "not found"])
    /\ access_token # None

\* C12: a token response received at instant T with token_timeout = s makes
\* authenticate and refresh set token_expiry to T + s - 300 seconds, which is
\* T + 3300 for s = 3600, with s = 3600 when the response carries no
\* token_timeout.
C12_ExpiryIsTimeoutMinusMargin ==
    [][\A c \in Callers :
       Answered(c) => \A s \in OkShapes :
         (AuthenticateResponse(c, s) \/ RefreshResponse(c, s)) =>
            /\ s.timeout # None => token_expiry' = Some(now + s.timeout[1] - 300)
            /\ s.timeout \in {None, Some(3600)} =>
                  token_expiry' = Some(now + 3300)]_vars

\* The expiry held is the one of a token issued for an hour (or with no
\* token_timeout) at an earlier instant, and of one issued just now.
C12_Witness ==
    /\ access_token # None
    /\ token_expiry # None
    /\ now > 0
    /\ token_expiry[1] \in {3300, now + 3300}

\* C15: when the token endpoint answers authenticate with a transport error
\* or a non-2xx status, authenticate raises the authentication error and
\* access_token, refresh_token and token_expiry stay exactly as they were.
C15_FailedAuthenticateKeepsToken ==
    [][\A c \in Callers :
       Answered(c) =>
         \A s \in {x \in TokenResponseShapes : x.kind = "http_error"} :
            AuthenticateResponse(c, s) =>
               /\ UNCHANGED client
               /\ pc'[c] = "idle"
               /\ outcome' = Ended(c, "OAuth authentication failed")]_vars

\* An authentication has just failed while an expired token is held: the
\* token is still there.
C15_Witness ==
    /\ outcome # None
    /\ outcome[1].ended = "OAuth authentication failed"
    /\ access_token # None
    /\ token_expiry # None
    /\ now >= token_expiry[1]

\* The entries of mapping m that _clean_params is to keep, in their order.
KeptEntries(m) ==
    SelectSeq(m, LAMBDA en : en.value \notin {PyNone, PyStr(""), PyList(<<>>)})

\* C13: _clean_params returns exactly the entries whose value is not absent,
\* not the empty string and not the empty list, in their original key
\* order; a list value is replaced by the comma-joined string of its
\* elements (["a","b"] becomes "a,b"), every scalar value, 0 and False
\* included, is passed through unchanged, and the input mapping is not
\* modified.
C13_CleanParams ==
    [][CallCleanParams =>
         /\ params' = params
         /\ cleaned' # None
         /\ LET out == cleaned'[1]
                kept == KeptEntries(params)
            IN /\ Len(out) = Len(kept)
               /\ \A i \in 1..Len(kept) :
                    /\ out[i].key = kept[i].key
                    /\ ~IsList(kept[i].value) => out[i].value = kept[i].value
                    /\ kept[i].value = PyList(<<PyStr("a"), PyStr("b")>>)
                          => out[i].value = PyStr("a,b")
                    /\ kept[i].value = PyList(<<PyInt(1)>>)
                          => out[i].value = PyStr("1")
               /\ \A en \in Range(params) :
                    en.value \in {PyInt(0), PyBool(FALSE)} => en \in Range(out)]_vars

\* A mapping with a dropped entry before a list entry and a falsy scalar
\* has been normalized.
C13_Witness ==
    /\ cleaned # None
    /\ Len(params) = MaxParams
    /\ \E i, j \in 1..Len(params) :
          /\ i < j
          /\ params[i].value \in {PyNone, PyStr(""), PyList(<<>>)}
          /\ params[j].value = PyList(<<PyStr("a"), PyStr("b")>>)
    /\ Len(cleaned[1]) = Len(params) - 1

\* The caller runs get_current_power.
PowerCall(c) == req[c] # None /\ req[c][1].endpoint = POWER_CURRENT

\* The value that the query q has for key k (None when q has no such key).
QueryValue(q, k) ==
    IF \E i \in 1..Len(q) : q[i].key = k
    THEN Some((CHOOSE en \in Range(q) : en.key = k).value)
    ELSE None

\* The value that get_current_power was given for key k.
Given(c, k) == QueryValue(req[c][1].query_params[1], k)

\* C14: get_current_power results in exactly one GET to
\* /dcim/v1/power/current whose query carries accountNo, ibx and levelType
\* with the given values, and a levelValue key if and only if levelValue is
\* neither absent nor empty.
C14_OneGetWithRequiredKeys ==
    /\ [](\A c \in Callers :
            (PowerCall(c) /\ http[c] # None) =>
               /\ http[c][1].method = "GET"
               /\ http[c][1].path = POWER_CURRENT
               /\ \A k \in {"accountNo", "ibx", "levelType"} :
                     QueryValue(http[c][1].params, k) = Given(c, k)
               /\ QueryValue(http[c][1].params, "levelValue") # None
                     <=> Given(c, "levelValue")
                            \notin {Some(PyNone), Some(PyStr(""))})
    /\ [][\A c \in Callers :
            (PowerCall(c) /\ pc'[c] = "idle") =>
               Count(log[c], DATA_ENDPOINT) = 1]_vars

\* C14 as amended: get_current_power issues no GET when obtaining a valid
\* token fails, and then raises that failure; otherwise it issues exactly
\* one GET, to /dcim/v1/power/current, whose query carries each of
\* accountNo, ibx, levelType and levelValue, with the given value, if and
\* only if that value is neither absent nor the empty string.
C14_OneGetWithNonEmptyKeys ==
    /\ [](\A c \in Callers :
            (PowerCall(c) /\ http[c] # None) =>
               /\ http[c][1].method = "GET"
               /\ http[c][1].path = POWER_CURRENT
               /\ \A k \in {"accountNo", "ibx", "levelType", "levelValue"} :
                     QueryValue(http[c][1].params, k) =
                        (IF Given(c, k) \in {Some(PyNone), Some(PyStr(""))}
                         THEN None ELSE Given(c, k))
               /\ \A en \in Range(http[c][1].params) :
                     en.key \in {"accountNo", "ibx", "levelType", "levelValue"})
    /\ [][\A c \in Callers :
            (PowerCall(c) /\ pc'[c] = "idle") =>
               IF pc[c] = "data_wait"
               THEN Count(log[c], DATA_ENDPOINT) = 1
               ELSE /\ Count(log[c], DATA_ENDPOINT) = 0
                    /\ outcome' # None
                    /\ outcome'[1].caller = c
                    /\ outcome'[1].ended # "ok"]_vars

\* The GET of a get_current_power that was given an empty accountNo and a
\* levelValue is in flight after a token exchange: its query has ibx and
\* levelValue and no accountNo.
C14_Witness ==
    \E c \in Callers :
        /\ PowerCall(c)
        /\ http[c] # None
        /\ Len(log[c]) > 1
        /\ Given(c, "accountNo") = Some(PyStr(""))
        /\ QueryValue(http[c][1].params, "accountNo") = None
        /\ QueryValue(http[c][1].params, "ibx") = Some(PyStr("SV5"))
        /\ QueryValue(http[c][1].params, "levelValue") = Some(PyStr("c1"))

\* The invocation that finished last is a get_client that returned a client.
ReturnedClient ==
    /\ outcome # None
    /\ outcome[1].ended = "ok"
    /\ outcome[1].detail # None
    /\ "instance" \in DOMAIN outcome[1].detail[1]

\* C16: under every interleaving of get_client callers, whether the first
\* authenticate succeeds or fails, at most one SmartViewClient is ever
\* constructed, and every get_client that returns returns that instance.
C16_SingleClientInstance ==
    /\ created <= 1
    /\ client_instance = (IF created = 0 THEN None ELSE Some(1))
    /\ ReturnedClient =>
          /\ client_instance # None
          /\ outcome[1].detail[1].instance = client_instance[1]

\* A second get_client has returned the client while the first, which
\* constructed it, is still waiting for the answer to its authenticate.
C16_Witness ==
    /\ ReturnedClient
    /\ \E c \in Callers :
          /\ c # outcome[1].caller
          /\ pc[c] = "auth_wait"
          /\ Head(called[c]) = "get_client"

====
